---- MODULE Spec2Model ----
(***************************************************************************)
(* The potential-field agent APF_Robot of src/main.py as a state machine.  *)
(*                                                                         *)
(* Numbers.  The program computes in IEEE doubles; TLC has 32-bit          *)
(* integers.  Lengths and forces are fixed-point: one unit is 1/Scale, so  *)
(* 0.1 is 100 and a force of 150 is 150000.  Products that would not fit   *)
(* are formed by MulDiv, which halves an operand first (losing one low     *)
(* bit, as a float loses low bits), and a single obstacle's repulsion is   *)
(* saturated at ForceCap per component (reached only within about 0.05 of  *)
(* an obstacle centre).  A force is a record [x, y, nan]: nan is the       *)
(* not-a-number value that 0/0 produces in the program.                    *)
(***************************************************************************)
EXTENDS Integers, Sequences, FiniteSets, TLC

\* ------------------------------------------------------------ fixed point

\* Units per 1.0 of the program's floats.
Scale == 10 * 10 * 10

\* Largest magnitude an intermediate product may take (below 2^31).
MaxInt == 46340 * 46340

\* Saturation of one component of one obstacle's repulsive force.
ForceCap == 500000 * Scale

Abs(a) == IF a < 0 THEN -a ELSE a

Sgn(a) == IF a < 0 THEN -1 ELSE IF a > 0 THEN 1 ELSE 0

Min(a, b) == IF a <= b THEN a ELSE b

Max(a, b) == IF a >= b THEN a ELSE b

\* a / b rounded to nearest, for a >= 0, b > 0 (a double's division rounds
\* to nearest).
RDivNat(a, b) == (a \div b) + (IF 2 * (a % b) >= b THEN 1 ELSE 0)

\* a / b rounded to nearest, any sign of a, b > 0.
RDiv(a, b) == Sgn(a) * RDivNat(Abs(a), b)

\* a * b / c rounded, for a, b >= 0 and c > 0, saturated at cap: the product
\* is formed directly when it fits, else with the larger factor halved.
RECURSIVE MulDivSat(_, _, _, _)
MulDivSat(a, b, c, cap) ==
    IF a = 0 \/ b = 0 THEN 0
    ELSE IF a <= MaxInt \div b
         THEN LET p == a * b
                  q == p \div c
                  r == p % c
              IN  IF q >= cap THEN cap
                  ELSE Min(cap, q + (IF r >= c - r THEN 1 ELSE 0))
         ELSE LET h == IF a >= b THEN MulDivSat(a \div 2, b, c, cap)
                                 ELSE MulDivSat(a, b \div 2, c, cap)
              IN  IF h >= cap \div 2 THEN cap ELSE 2 * h

\* Floor of the square root of n >= 0, by bisection on [lo, hi).
RECURSIVE SqrtBisect(_, _, _)
SqrtBisect(n, lo, hi) ==
    IF hi - lo <= 1 THEN lo
    ELSE LET mid == (lo + hi) \div 2
         IN  IF mid * mid <= n THEN SqrtBisect(n, mid, hi)
                               ELSE SqrtBisect(n, lo, mid)

ISqrt(n) == SqrtBisect(n, 0, 46341)

\* ---------------------------------------------------------------- vectors

Vec(x, y) == [x |-> x, y |-> y]

Force(x, y) == [x |-> x, y |-> y, nan |-> FALSE]

NaNForce == [x |-> 0, y |-> 0, nan |-> TRUE]

ZeroForce == Force(0, 0)

\* Squared length of a vector whose components are below 32768 in size.
NormSq(v) == v.x * v.x + v.y * v.y

\* np.linalg.norm of a finite vector (floor): large vectors are scaled
\* down before squaring.
Norm(v) ==
    LET m == Max(Abs(v.x), Abs(v.y))
    IN  IF m <= 32767 THEN ISqrt(NormSq(v))
        ELSE LET k == m \div 32768 + 1
             IN  k * ISqrt((v.x \div k) * (v.x \div k) + (v.y \div k) * (v.y \div k))

\* f_a + f_b on force records: a nan operand makes the sum nan.
AddForce(a, b) ==
    IF a.nan \/ b.nan THEN NaNForce ELSE Force(a.x + b.x, a.y + b.y)

\* v brought to a working size (largest component in 16384..32767) without
\* changing its direction, so that its unit vector keeps four digits.
Rescale(v) ==
    LET m == Max(Abs(v.x), Abs(v.y))
    IN  IF m = 0 THEN Vec(0, 0)
        ELSE IF m > 32767
             THEN LET k == m \div 32768 + 1
                  IN  Vec(RDiv(v.x, k), RDiv(v.y, k))
             ELSE LET k == 32767 \div m
                  IN  Vec(v.x * k, v.y * k)

\* (f / |f|) * step for a finite non-zero f: the displacement of one tick.
UnitTimes(f, step) ==
    LET s == Rescale(f)
        n == ISqrt(NormSq(s))
    IN  Vec(RDiv(s.x * step, n), RDiv(s.y * step, n))

\* ------------------------------------------------------------------ state

VARIABLES
    pos,            \* self.pos: the agent's position
    goal,           \* self.goal
    obstacles,      \* self.obstacles: sequence of [x, y, r]
    k_att,          \* self.k_att
    k_rep,          \* self.k_rep
    rr,             \* self.rr: influence radius
    step_size,      \* self.step_size
    enable_escape,  \* self.enable_escape
    path,           \* self.path: sequence of positions
    is_reached,     \* self.is_reached
    stuck_counter,  \* self.stuck_counter
    escape_timer,   \* self.escape_timer
    escape_force,   \* self.escape_force
    calls,          \* history: step() calls made so far
    ticks,          \* history: step() calls that ran past the early return
    streak,         \* history: consecutive normal-mode ticks that met the deadlock test
    trigger_tick,   \* history: value of ticks after the last tick that started an escape (0: none)
    peak_counter,   \* history: the highest value stuck_counter has held, inside a tick included
    last_force,     \* history: f_total of the last executed tick
    last_step       \* history: the local `step` of the last executed tick (0: the tick did not move)

config == <<goal, obstacles, k_att, k_rep, rr, step_size, enable_escape>>

agent == <<pos, path, is_reached, stuck_counter, escape_timer, escape_force>>

history == <<calls, ticks, streak, trigger_tick, peak_counter, last_force, last_step>>

vars == <<pos, goal, obstacles, k_att, k_rep, rr, step_size, enable_escape,
          path, is_reached, stuck_counter, escape_timer, escape_force,
          calls, ticks, streak, trigger_tick, peak_counter, last_force, last_step>>

\* ------------------------------------------------------------------ bounds

\* step() calls explored per run.
MaxCalls == 76

\* step() calls of a scenario run (the 800 ticks of the end-to-end scenarios).
ScenarioCalls == 800

\* -------------------------------------------------------- program constants

STUCK_FORCE_THRESHOLD == 10 * Scale

GOAL_PROXIMITY_THRESHOLD == 1 * Scale

STUCK_TICK_LIMIT == 10

ESCAPE_TICKS == 60

ESCAPE_BOOST == 150

GOAL_RADIUS == Scale \div 5

X_MIN == -2 * Scale

X_MAX == 14 * Scale

Y_MIN == -6 * Scale

Y_MAX == 6 * Scale

\* ------------------------------------------------------------------ forces

\* Faulty variant of WithinInfluence: the range test is missing.
WithinInfluenceAlways(d2) == TRUE

\* if dist <= self.rr, on squares
WithinInfluence(d2) == rr >= 0 /\ d2 <= rr * rr

\* One obstacle's term of calculate_repulsive_force at position p:
\* nothing beyond rr, nan at the centre itself (0/0), else
\* k_rep * (1/dist - 1/rr) * (1/dist^2) along (p - centre)/dist.
RepulsionOf(p, o) ==
    LET dv == Vec(p.x - o.x, p.y - o.y)
        d2 == NormSq(dv)
    IN  IF ~WithinInfluence(d2) THEN ZeroForce
        ELSE IF d2 = 0 THEN NaNForce
        ELSE LET dist    == ISqrt(d2)
                 inv     == RDivNat(Scale * Scale * Scale, dist)
                            - RDivNat(Scale * Scale * Scale, rr)
                 gain    == MulDivSat(Abs(inv), Abs(k_rep), Scale, MaxInt \div 2)
                 over_d  == MulDivSat(gain, Scale, dist, MaxInt \div 2)
                 rep_val == MulDivSat(over_d, Scale, dist, MaxInt \div 2)
                 sign    == Sgn(inv) * Sgn(k_rep)
             IN  Force(sign * Sgn(dv.x) * MulDivSat(rep_val, Abs(dv.x), dist, ForceCap),
                       sign * Sgn(dv.y) * MulDivSat(rep_val, Abs(dv.y), dist, ForceCap))

RECURSIVE RepulsionSum(_, _)
RepulsionSum(p, obs) ==
    IF obs = << >> THEN ZeroForce
    ELSE AddForce(RepulsionSum(p, SubSeq(obs, 1, Len(obs) - 1)),
                  RepulsionOf(p, obs[Len(obs)]))

calculate_repulsive_force(p) == RepulsionSum(p, obstacles)

calculate_attractive_force(p) ==
    Force(-k_att * (p.x - goal.x), -k_att * (p.y - goal.y))

\* np.linalg.norm(f) < t: false for nan.
NormLess(f, t) == ~f.nan /\ Norm(f) < t

\* np.linalg.norm(p - goal) > t, on squares.
GoalFartherThan(p, t) == NormSq(Vec(p.x - goal.x, p.y - goal.y)) > t * t

\* np.linalg.norm(p - goal) < t, on squares.
GoalNearerThan(p, t) == NormSq(Vec(p.x - goal.x, p.y - goal.y)) < t * t

\* The unit vectors the random angle is drawn from: cos and sin times Scale.
Directions ==
    LET a == Scale
        b == (3 * Scale) \div 5
        c == (4 * Scale) \div 5
    IN  {Vec(sx * q[1], sy * q[2]) :
            sx \in {-1, 1}, sy \in {-1, 1},
            q \in {<<a, 0>>, <<0, a>>, <<b, c>>, <<c, b>>}}

\* ------------------------------------------------------------ parts of step

\* Faulty variant of ReturnsEarly: the early return is missing.
ReturnsEarlyNever == FALSE

\* if self.is_reached: return
ReturnsEarly == is_reached

\* Faulty variant of Countdown: the timer drops by two a tick.
CountdownByTwo(t) == Max(0, t - 2)

\* self.escape_timer -= 1
Countdown(t) == t - 1

\* Faulty variant of DetectionOn: deadlock detection runs whatever the flag says.
DetectionAlways == TRUE

\* if self.enable_escape:
DetectionOn == enable_escape

\* f_norm < 10 and np.linalg.norm(self.pos - self.goal) > 1.0
DeadlockTest(f_total, p) ==
    NormLess(f_total, STUCK_FORCE_THRESHOLD) /\ GoalFartherThan(p, GOAL_PROXIMITY_THRESHOLD)

\* Faulty variant of Counted: a tick that fails the test leaves the counter.
CountedWithoutReset(counter, stuck) == IF stuck THEN counter + 1 ELSE counter

\* stuck_counter += 1, else stuck_counter = 0
Counted(counter, stuck) == IF stuck THEN counter + 1 ELSE 0

\* Faulty variant of EscapeTriggered: >= where the code has >.
EscapeTriggeredAtLimit(counter) == counter >= STUCK_TICK_LIMIT

\* if self.stuck_counter > 10:
EscapeTriggered(counter) == counter > STUCK_TICK_LIMIT

\* Faulty variant of CounterAfterTrigger: the trigger leaves the counter as it is.
CounterKept(counter) == counter

\* self.stuck_counter = 0 of the trigger
CounterAfterTrigger(counter) == 0

\* direction * 150
EscapeForceOf(direction) ==
    Force(ESCAPE_BOOST * direction.x, ESCAPE_BOOST * direction.y)

\* step = self.step_size, or self.step_size * 1.5 if self.escape_timer > 0
StepLength(timer) == IF timer > 0 THEN RDiv(3 * step_size, 2) ELSE step_size

\* self.pos += (f_total / f_norm_final) * step, if f_norm_final > 0
Moved(p, f_total, timer) ==
    IF f_total.nan \/ (f_total.x = 0 /\ f_total.y = 0) THEN p
    ELSE LET d == UnitTimes(f_total, StepLength(timer))
         IN  Vec(p.x + d.x, p.y + d.y)

Clip(v, lo, hi) == IF v < lo THEN lo ELSE IF v > hi THEN hi ELSE v

\* Faulty variant of Clamped: only x is clipped.
ClampedXOnly(p) == Vec(Clip(p.x, X_MIN, X_MAX), p.y)

\* np.clip of both coordinates
Clamped(p) == Vec(Clip(p.x, X_MIN, X_MAX), Clip(p.y, Y_MIN, Y_MAX))

\* Faulty variant of Appended: the last element is overwritten instead.
AppendedInPlace(s, p) == [s EXCEPT ![Len(s)] = p]

\* self.path.append(self.pos.copy())
Appended(s, p) == Append(s, p)

\* Faulty variant of GoalCheck: the radius 0.3 of the other profile.
GoalCheckWide(p) == GoalNearerThan(p, (3 * Scale) \div 10)

\* np.linalg.norm(self.pos - self.goal) < 0.2
GoalCheck(p) == GoalNearerThan(p, GOAL_RADIUS)

\* --------------------------------------------- what one tick computes

F_rep == calculate_repulsive_force(pos)

F_att == calculate_attractive_force(pos)

InEscape == escape_timer > 0

\* Normal mode: f_att + f_rep and the deadlock test on it.
F_normal == AddForce(F_att, F_rep)

Stuck == DeadlockTest(F_normal, pos)

CounterNow == IF DetectionOn THEN Counted(stuck_counter, Stuck) ELSE stuck_counter

Triggers == ~InEscape /\ DetectionOn /\ EscapeTriggered(CounterNow)

\* Faulty variant of EscapeTotal: the attraction is left in.
EscapeTotalWithAttraction(force) == AddForce(AddForce(force, F_att), F_rep)

\* f_total = self.escape_force + f_rep (escape mode and the trigger tick)
EscapeTotal(force) == AddForce(force, F_rep)

\* Faulty variant of StepSizeKept: the boost is written back to self.step_size.
StepSizeBoosted ==
    IF ~is_reached /\ escape_timer > 1 THEN RDiv(3 * step_size, 2) ELSE step_size

\* self.step_size after a call: the tick's step length lives in the local
\* `step`, the attribute is only read.
StepSizeKept == step_size

\* ------------------------------------------------------------------ step()

\* One call of step(), the limit-th call at most, with the random angle drawn
\* from draws.
StepWith(limit, draws) ==
    /\ calls < limit
    /\ calls' = calls + 1
    /\ UNCHANGED <<goal, obstacles, k_att, k_rep, rr, enable_escape>>
    /\ step_size' = StepSizeKept
    /\ IF ReturnsEarly
       THEN UNCHANGED <<agent, ticks, streak, trigger_tick, peak_counter, last_force, last_step>>
       ELSE \E direction \in draws :
            LET new_force == IF Triggers THEN EscapeForceOf(direction) ELSE escape_force
                new_timer == IF InEscape THEN Countdown(escape_timer)
                             ELSE IF Triggers THEN ESCAPE_TICKS ELSE escape_timer
                new_count == IF InEscape THEN stuck_counter
                             ELSE IF Triggers THEN CounterAfterTrigger(CounterNow)
                             ELSE CounterNow
                f_total   == IF InEscape \/ Triggers THEN EscapeTotal(new_force)
                             ELSE F_normal
                new_pos   == Clamped(Moved(pos, f_total, new_timer))
            IN  /\ escape_force' = new_force
                /\ escape_timer' = new_timer
                /\ stuck_counter' = new_count
                /\ pos' = new_pos
                /\ path' = Appended(path, new_pos)
                /\ is_reached' = (is_reached \/ GoalCheck(new_pos))
                /\ ticks' = ticks + 1
                /\ streak' = IF ~InEscape /\ Stuck THEN streak + 1 ELSE 0
                /\ trigger_tick' = IF Triggers THEN ticks + 1 ELSE trigger_tick
                /\ peak_counter' = Max(peak_counter,
                                       IF InEscape THEN stuck_counter ELSE CounterNow)
                /\ last_force' = f_total
                /\ last_step' = IF f_total.nan \/ (f_total.x = 0 /\ f_total.y = 0)
                                THEN 0 ELSE StepLength(new_timer)

step == StepWith(MaxCalls, Directions)

\* ------------------------------------------------------------- construction

\* The three obstacle layouts: none, and the two the demo's scenarios build.
NoObstacles == << >>

BasicObstacles ==
    << [x |-> 4 * Scale, y |-> Scale \div 2, r |-> 2 * Scale],
       [x |-> 8 * Scale, y |-> -1 * Scale, r |-> 2 * Scale],
       [x |-> 6 * Scale, y |-> 3 * Scale, r |-> (3 * Scale) \div 2] >>

TrapObstacles ==
    << [x |-> (13 * Scale) \div 2, y |-> (5 * Scale) \div 2, r |-> (3 * Scale) \div 2],
       [x |-> (13 * Scale) \div 2, y |-> -((5 * Scale) \div 2), r |-> (3 * Scale) \div 2],
       [x |-> 8 * Scale, y |-> 0, r |-> 2 * Scale] >>

\* Obstacles with the rr the caller passes for them (the default 3.0, or 4.0).
Layouts ==
    { [obstacles |-> NoObstacles, rr |-> 3 * Scale],
      [obstacles |-> BasicObstacles, rr |-> 3 * Scale],
      [obstacles |-> TrapObstacles, rr |-> 4 * Scale] }

\* Start positions: the scenarios' (0,0); points 3 and 0.15 from the goal;
\* the goal itself; the centre of an obstacle; a point outside the world box.
Starts ==
    { Vec(0, 0), Vec(9 * Scale, 0), Vec(12 * Scale - (3 * Scale) \div 20, 0),
      Vec(12 * Scale, 0), Vec(4 * Scale, Scale \div 2), Vec(-3 * Scale, 7 * Scale) }

Goals == { Vec(12 * Scale, 0) }

\* step_size as the caller passes it: the default 0.1, and 0 (the
\* constructor takes any number).
StepSizes == { Scale \div 10, 0 }

\* __init__: every argument is stored as given, nothing is checked.
Init ==
    /\ pos \in Starts
    /\ goal \in Goals
    /\ \E l \in Layouts : obstacles = l.obstacles /\ rr = l.rr
    /\ k_att = 2
    /\ k_rep = 80
    /\ step_size \in StepSizes
    /\ enable_escape \in BOOLEAN
    /\ path = << pos >>
    /\ is_reached = FALSE
    /\ stuck_counter = 0
    /\ escape_timer = 0
    /\ escape_force = ZeroForce
    /\ calls = 0
    /\ ticks = 0
    /\ streak = 0
    /\ trigger_tick = 0
    /\ peak_counter = 0
    /\ last_force = ZeroForce
    /\ last_step = 0

Next == step

Spec == Init /\ [][Next]_vars

\* ------------------------------------------------- the demo's trap scenarios

\* The angle drawn in a scenario run: 0 on every draw (cos 0 = 1, sin 0 = 0).
ScenarioDirections == { Vec(Scale, 0) }

\* load_scenario_trap and load_scenario_escape: start (0,0), goal (12,0), the
\* trap obstacles, k_rep = 80, rr = 4.0, escape off or on.
ScenarioInit ==
    /\ pos = Vec(0, 0)
    /\ goal = Vec(12 * Scale, 0)
    /\ obstacles = TrapObstacles
    /\ rr = 4 * Scale
    /\ k_att = 2
    /\ k_rep = 80
    /\ step_size = Scale \div 10
    /\ enable_escape \in BOOLEAN
    /\ path = << pos >>
    /\ is_reached = FALSE
    /\ stuck_counter = 0
    /\ escape_timer = 0
    /\ escape_force = ZeroForce
    /\ calls = 0
    /\ ticks = 0
    /\ streak = 0
    /\ trigger_tick = 0
    /\ peak_counter = 0
    /\ last_force = ZeroForce
    /\ last_step = 0

scenario_step == StepWith(ScenarioCalls, ScenarioDirections)

ScenarioNext == scenario_step

SpecScenario == ScenarioInit /\ [][ScenarioNext]_vars

\* ------------------------------------------------------ derived notions

\* The spec's state names, read off the fields.
State ==
    IF is_reached THEN "REACHED"
    ELSE IF escape_timer > 0 THEN "ESCAPING"
    ELSE "NAVIGATING"

InBox(p) == p.x >= X_MIN /\ p.x <= X_MAX /\ p.y >= Y_MIN /\ p.y <= Y_MAX

\* A step() call that ran past the early return.
Ticked == ticks' = ticks + 1

\* No obstacle's centre is within rr of p.
NoObstacleWithin(p) ==
    \A i \in 1..Len(obstacles) :
        NormSq(Vec(p.x - obstacles[i].x, p.y - obstacles[i].y)) > rr * rr

\* What the constructor's contract accepts.
ValidConfiguration ==
    k_att > 0 /\ k_rep > 0 /\ rr > 0 /\ step_size > 0 /\ path[1] # goal

\* ------------------------------------------------------------------ claims

\* C1: once is_reached is true, a step() call changes none of position,
\* path, is_reached, stuck_counter, escape_timer and escape_force, and
\* is_reached stays true.
C1_ReachedIsTerminal ==
    [][is_reached => (UNCHANGED agent /\ is_reached')]_vars

\* C1 witness: step() has been called on an agent that had already reached
\* the goal.
C1_Witness == is_reached /\ calls > ticks

\* C2: the path has 1 + (executed ticks) elements, starts as [start], ends
\* with the current position, and each executed tick appends exactly the
\* new position and leaves the earlier elements as they were.
C2_PathGrowsByOne ==
    /\ [](/\ Len(path) = 1 + ticks
          /\ path[Len(path)] = pos
          /\ (ticks = 0 => path = << pos >>))
    /\ [][/\ SubSeq(path', 1, Len(path)) = path
          /\ (Ticked => path' = Append(path, pos'))
          /\ (~Ticked => path' = path)]_vars

\* C2 witness: several ticks ran, then a call after the goal was reached
\* added nothing.
C2_Witness == ticks >= 3 /\ calls > ticks /\ Len(path) = ticks + 1

\* C3: every point step() appended to the path, and the position after
\* every executed tick, lies in the world box.
C3_InsideBox ==
    /\ \A i \in 2..Len(path) : InBox(path[i])
    /\ (ticks > 0 => InBox(pos))

\* C3 witness: an agent constructed outside the box has ticked and now sits
\* on the box's edge.
C3_Witness ==
    ticks > 0 /\ ~InBox(path[1]) /\ InBox(pos) /\ (pos.x = X_MIN \/ pos.y = Y_MAX)

\* C4: at a tick boundary escape_timer > 0 and stuck_counter > 0 never hold
\* together.
C4_TimerExcludesCounter == ~(escape_timer > 0 /\ stuck_counter > 0)

\* C4 witness: the boundary right after a tick that started an escape.
C4_Witness ==
    trigger_tick = ticks /\ ticks > 0 /\ escape_timer = ESCAPE_TICKS /\ stuck_counter = 0

C6_NoEscapeWhenDisabled ==
    ~enable_escape =>
        escape_timer = 0 /\ escape_force = ZeroForce /\ State # "ESCAPING"

\* C6 witness: escape is disabled and the deadlock test has been met on
\* more consecutive ticks than the limit.
C6_Witness == ~enable_escape /\ streak > STUCK_TICK_LIMIT + 1 /\ ~is_reached

\* C7: every executed tick that starts with escape_timer = K > 0 runs in
\* escape mode and leaves K - 1; so K ticks after that boundary, and not
\* sooner, the timer is 0 and the agent (if the goal was not reached) is
\* NAVIGATING again.
C7_CountdownExact ==
    /\ [](/\ (trigger_tick = 0 => escape_timer = 0)
          /\ (trigger_tick > 0 =>
                escape_timer = Max(0, ESCAPE_TICKS - (ticks - trigger_tick)))
          /\ (~is_reached /\ trigger_tick > 0 /\ ticks - trigger_tick >= ESCAPE_TICKS
                => State = "NAVIGATING"))
    /\ [][(Ticked /\ escape_timer > 0) =>
            /\ escape_timer' = escape_timer - 1
            /\ escape_force' = escape_force
            /\ stuck_counter' = stuck_counter
            /\ pos' = Clamped(Moved(pos, AddForce(escape_force, F_rep), escape_timer - 1))]_vars

\* C7 witness: the 60th tick after the trigger has run without reaching the
\* goal and the timer is back at 0.
C7_Witness ==
    /\ trigger_tick > 0
    /\ ticks = trigger_tick + ESCAPE_TICKS
    /\ escape_timer = 0
    /\ ~is_reached

\* C8 (as claimed): on every executed tick with no obstacle within rr the
\* position moves by step_size along the line to the goal, with escape
\* enabled or not.  Stated for agents that the constructor's contract
\* accepts and that are inside the world box and not on the goal.
C8_PureAttractiveStep ==
    [][(Ticked /\ ValidConfiguration /\ NoObstacleWithin(pos) /\ InBox(pos) /\ pos # goal) =>
            pos' = Clamped(Moved(pos, F_att, 0))]_vars

\* C9 (as claimed): the repulsive force step() computes is never
\* not-a-number, also with the agent on an obstacle's centre.  Stated for
\* agents that the constructor's contract accepts.
C9_RepulsionFinite ==
    [][(Ticked /\ ValidConfiguration) => ~F_rep.nan]_vars

\* C10 (as claimed): no agent on which step() runs was constructed with a
\* non-positive gain, radius or step size, or with start equal to goal.
C10_InvalidConfigurationRefused ==
    ticks > 0 => ValidConfiguration

\* C11 (as claimed): in the trap scenario with enable_escape false,
\* stuck_counter has exceeded the limit 10 at some tick of the 800 calls and
\* is_reached is false after the 800th.
C11_TrapCounterExceedsLimit ==
    (~enable_escape /\ calls = ScenarioCalls) =>
        (peak_counter > STUCK_TICK_LIMIT /\ ~is_reached)

\* C11 (amended): in the trap scenario with enable_escape false,
\* stuck_counter stays 0 throughout the 800 calls (it is only kept when
\* enable_escape is true) although the deadlock test is met on more than 10
\* consecutive ticks, and is_reached is false after every call up to the
\* 800th.
C11_TrapCounterStaysZero ==
    ~enable_escape =>
        /\ stuck_counter = 0
        /\ peak_counter = 0
        /\ ~is_reached
        /\ (calls = ScenarioCalls => streak > STUCK_TICK_LIMIT)

\* C11 witness: the 800th call of the trap run has been made, with the
\* deadlock test met on more than 10 consecutive ticks.
C11_Witness ==
    ~enable_escape /\ calls = ScenarioCalls /\ ticks = ScenarioCalls /\ streak > STUCK_TICK_LIMIT

\* C12 (as claimed): in the escape scenario is_reached is true within 800
\* step() calls, whatever angles are drawn.
C12_EscapeReachesGoal ==
    (enable_escape /\ calls = ScenarioCalls) => is_reached

\* The term of the i-th obstacle in the repulsive force at the current
\* position (zero past the end of the list).
RepulsionTerm(i) ==
    IF i <= Len(obstacles) THEN RepulsionOf(pos, obstacles[i]) ELSE ZeroForce

\* The i-th obstacle's centre is farther than rr from the current position.
BeyondInfluence(i) ==
    NormSq(Vec(pos.x - obstacles[i].x, pos.y - obstacles[i].y)) > rr * rr

\* C13: the repulsive force is the zero vector when every obstacle is
\* farther than rr; an obstacle farther than rr contributes nothing, and the
\* force is the sum of the obstacles' terms (at most three obstacles here).
C13_RepulsionOnlyWithinRadius ==
    /\ Len(obstacles) <= 3
    /\ (NoObstacleWithin(pos) => F_rep = ZeroForce)
    /\ \A i \in 1..Len(obstacles) : BeyondInfluence(i) => RepulsionTerm(i) = ZeroForce
    /\ F_rep = AddForce(AddForce(RepulsionTerm(1), RepulsionTerm(2)), RepulsionTerm(3))

\* C13 witness: an agent among obstacles that has moved and has every
\* obstacle farther than rr.
C13_Witness == obstacles # << >> /\ ticks > 0 /\ NoObstacleWithin(pos)

\* C14: no step() call changes obstacles, goal, k_att, k_rep, rr, step_size
\* or enable_escape, so they keep the values given at construction.
C14_ConfigurationImmutable ==
    /\ [](/\ goal \in Goals
          /\ step_size \in StepSizes
          /\ [obstacles |-> obstacles, rr |-> rr] \in Layouts)
    /\ [][/\ goal' = goal
          /\ obstacles' = obstacles
          /\ k_att' = k_att
          /\ k_rep' = k_rep
          /\ rr' = rr
          /\ step_size' = step_size
          /\ enable_escape' = enable_escape]_vars

\* C14 witness: normal ticks, a trigger tick and escape ticks have all run.
C14_Witness == trigger_tick > 0 /\ ticks >= trigger_tick + 2 /\ step_size > 0

\* C15: a tick that starts with escape_timer > 0 moves by escape_force +
\* f_rep; the tick that triggers the escape moves by the newly drawn
\* escape_force + f_rep; every other executed tick moves by f_att + f_rep.
C15_ForceByMode ==
    [][Ticked =>
        /\ last_force' =
              IF escape_timer > 0 THEN AddForce(escape_force, F_rep)
              ELSE IF escape_timer' > 0 THEN AddForce(escape_force', F_rep)
              ELSE AddForce(F_att, F_rep)
        /\ pos' = Clamped(Moved(pos, last_force', escape_timer'))
        /\ (escape_timer = 0 /\ escape_timer' > 0 =>
                \E d \in Directions : escape_force' = EscapeForceOf(d))]_vars

\* C15 witness: a trigger tick has just run in an empty field away from the
\* goal: the force it used is the new escape force alone.
C15_Witness ==
    /\ trigger_tick = ticks
    /\ ticks > 0
    /\ obstacles = NoObstacles
    /\ last_force = escape_force
    /\ escape_force # ZeroForce

\* C16 (as claimed): every tick that moves by escape_force + f_rep, from the
\* trigger tick through the tick on which the countdown reaches 0, steps by
\* 1.5 * step_size, and every moving normal-mode tick by step_size.  Stated
\* for agents that the constructor's contract accepts.
C16_StepByMode ==
    [][(Ticked /\ ValidConfiguration /\ last_step' # 0) =>
            last_step' = IF escape_timer > 0 \/ escape_timer' > 0
                         THEN RDiv(3 * step_size, 2)
                         ELSE step_size]_vars

C18_StateMachineShape ==
    /\ [](calls = 0 => State = "NAVIGATING")
    /\ [][\/ State' = State
          \/ /\ State = "NAVIGATING" /\ State' = "ESCAPING"
             /\ enable_escape
             /\ peak_counter' > STUCK_TICK_LIMIT
             /\ streak' = STUCK_TICK_LIMIT + 1
          \/ /\ State = "ESCAPING" /\ State' = "NAVIGATING"
             /\ escape_timer = 1 /\ escape_timer' = 0
          \/ /\ State \in {"NAVIGATING", "ESCAPING"}
             /\ State' = "REACHED"]_vars

\* C18 witness: the agent went NAVIGATING -> ESCAPING -> NAVIGATING and has
\* ticked again since.
C18_Witness ==
    State = "NAVIGATING" /\ trigger_tick > 0 /\ ticks > trigger_tick + ESCAPE_TICKS

\* The point p is nearer than 0.2 to the goal.
InGoalRadius(p) ==
    (p.x - goal.x) * (p.x - goal.x) + (p.y - goal.y) * (p.y - goal.y)
        < GOAL_RADIUS * GOAL_RADIUS

\* C19: is_reached is set by the first executed tick whose appended
\* position is nearer than 0.2 to the goal and by nothing else: when it is
\* true the last path element is the position and is in the radius, and no
\* earlier appended element is.
C19_GoalCheck ==
    /\ (is_reached => ticks > 0 /\ path[Len(path)] = pos /\ InGoalRadius(pos))
    /\ \A i \in 2..Len(path) :
            InGoalRadius(path[i]) => (is_reached /\ i = Len(path))

\* C19 witness: the goal was reached after several ticks.
C19_Witness == is_reached /\ ticks >= 2 /\ InGoalRadius(path[Len(path)])

====
